---- MODULE Spec2Model ----
(***************************************************************************)
(* Model of package scheduler (src/scheduler.go).                          *)
(*                                                                         *)
(* One goroutine runs Scheduler.workerLoop and one goroutine per           *)
(* registered Schedule runs Schedule.scheduleLoop.  They communicate over  *)
(* the shared buffered channel jobch and over one confirmationChannel per  *)
(* Schedule.                                                               *)
(*                                                                         *)
(* Time is discrete, one unit being one nanosecond, the unit of            *)
(* time.Duration.  Every time value the code keeps is kept as a clock:     *)
(* startTime as the time passed since it was taken (what time.Since        *)
(* returns), the timer as the time left until it expires.  A goroutine     *)
(* that can take a step takes it before time passes.                       *)
(***************************************************************************)
EXTENDS Integers, Sequences, FiniteSets, TLC

\* ------------------------------------------------------------------ bounds
MaxSchedules == 3
MaxInterval == 2
MaxDuration == 2

\* ------------------------------------------------------- program constants
\* make(chan *Schedule, 1)
JobchCap == 1
\* make(chan confirmation, 1)
ConfCap == 1
\* time.Nanosecond: the duration of the first timer and of the clamp
Nanosecond == 1

\* The doc comment of AddSchedule: an interval of 20s and executions that
\* take 5s, 10s and 1s.
ExampleInterval == 20
ExampleDurations == <<5, 10, 1>>

\* The intervals AddSchedule is called with and the durations PerformWork
\* takes when it returns, with several Schedules registered ...
Intervals == {0, MaxInterval}
Durations == 0 .. MaxDuration
\* ... and with a single one.
SingleIntervals == (-1 .. MaxInterval) \cup {ExampleInterval}
SingleDurations == Durations \cup {ExampleDurations[k] : k \in 1 .. 3}

\* How long the recording of a single Schedule goes on.
Horizon == 62
MaxRuns == 4

VARIABLES
    schedules,  \* scheduler.schedules, with every Schedule's loop state
    jobch,      \* scheduler.jobch: the buffered Schedule references
    wpc,        \* position of workerLoop: "recv" (52), "work" (53), "send" (54)
    schedule,   \* workerLoop's local `schedule` (0 before the first receive)
    work,       \* the PerformWork invocation in progress
    obs,        \* observations per Schedule (not program state)
    accepted,   \* the pushes accepted by jobch whose PerformWork has not
                \* begun, oldest first (not program state)
    trace       \* recording of a single Schedule's runs (not program state)

vars == <<schedules, jobch, wpc, schedule, work, obs, accepted, trace>>

Ids == DOMAIN schedules

NoWork == [elapsed |-> 0, hangs |-> FALSE]

Min(a, b) == IF a < b THEN a ELSE b
Max(a, b) == IF a > b THEN a ELSE b
MaxOf(S) == CHOOSE x \in S : \A y \in S : y <= x

\* ------------------------------------------------------------ pure helpers

\* (as if the clamp were applied to every non-positive waitTime)
WaitTime_ClampNonPositive(interval, passedTime) ==
    LET waitTime == interval - passedTime
    IN  IF waitTime <= 0 THEN Nanosecond ELSE waitTime

\* (as if the time already passed were not subtracted)
WaitTime_NoCompensation(interval, passedTime) ==
    IF interval < 0 THEN Nanosecond ELSE interval

\* (as if there were no clamp)
WaitTime_NoClamp(interval, passedTime) == interval - passedTime

\* (as if the clamp fell back to the interval)
WaitTime_ClampToInterval(interval, passedTime) ==
    LET waitTime == interval - passedTime
    IN  IF waitTime < 0 THEN Max(interval, 0) ELSE waitTime

\* (as if the time already passed were added, not subtracted)
WaitTime_WrongSign(interval, passedTime) ==
    LET waitTime == interval + passedTime
    IN  IF waitTime < 0 THEN Nanosecond ELSE waitTime

\* (as if the clamp were two nanoseconds)
WaitTime_ClampTwo(interval, passedTime) ==
    LET waitTime == interval - passedTime
    IN  IF waitTime < 0 THEN 2 * Nanosecond ELSE waitTime

\* waitTime of scheduleLoop: s.interval - passedTime, replaced by
\* time.Nanosecond when negative.
WaitTime(interval, passedTime) ==
    LET waitTime == interval - passedTime
    IN  IF waitTime < 0 THEN Nanosecond ELSE waitTime

\* (as if the channel took every send at once)
CanSend_Unbounded(len, cap) == TRUE

\* A channel send proceeds when the buffer has room.
CanSend(len, cap) == len < cap

\* (as if the first timer were set to the interval)
NewSchedule_IntervalTimer(interval) ==
    [ interval            |-> interval,
      confirmationChannel |-> 0,
      pc                  |-> "select",
      timerArmed          |-> TRUE,
      timerLeft           |-> Max(interval, 0),
      passed              |-> 0 ]

\* The Schedule value AddSchedule builds and the state of its scheduleLoop
\* just after timer := time.NewTimer(time.Nanosecond); startTime := time.Now().
NewSchedule(interval) ==
    [ interval            |-> interval,
      confirmationChannel |-> 0,
      pc                  |-> "select",
      timerArmed          |-> TRUE,
      timerLeft           |-> Nanosecond,
      passed              |-> 0 ]

NewObs == [ ran |-> FALSE, executing |-> 0 ]

\* ------------------------------------------------------------------- Init
\* The state New() returns: no schedules, an empty jobch, workerLoop
\* blocked on its receive.
Init ==
    /\ schedules = << >>
    /\ jobch = << >>
    /\ wpc = "recv"
    /\ schedule = 0
    /\ work = NoWork
    /\ obs = << >>
    /\ accepted = << >>
    /\ trace = [clock |-> 0, runs |-> << >>]

\* ---------------------------------------------------------------- actions

\* (as if the registration waited for workerLoop to be free)
AddSchedule_WaitsForWorker(interval) ==
    /\ Len(schedules) < MaxSchedules
    /\ wpc = "recv"
    /\ schedules' = Append(schedules, NewSchedule(interval))
    /\ obs' = Append(obs, NewObs)
    /\ UNCHANGED <<jobch, wpc, schedule, work, accepted>>

\* Scheduler.AddSchedule(worker, interval)
AddSchedule(interval) ==
    /\ Len(schedules) < MaxSchedules
    /\ schedules' = Append(schedules, NewSchedule(interval))
    /\ obs' = Append(obs, NewObs)
    /\ UNCHANGED <<jobch, wpc, schedule, work, accepted>>

\* scheduleLoop, case <-timer.C: the one-shot timer has expired; record
\* startTime and go on to the send on jobch.
TimerExpired(s) ==
    /\ schedules[s].pc = "select"
    /\ schedules[s].timerArmed
    /\ schedules[s].timerLeft = 0

\* (as if the timer were a ticker that re-arms itself on expiry)
TimerFire_Ticker(s) ==
    /\ TimerExpired(s)
    /\ schedules' = [schedules EXCEPT
            ![s].timerLeft = Max(schedules[s].interval, Nanosecond),
            ![s].passed = 0,
            ![s].pc = "push"]
    /\ UNCHANGED <<jobch, wpc, schedule, work, obs, accepted>>

TimerFire(s) ==
    /\ TimerExpired(s)
    /\ schedules' = [schedules EXCEPT ![s].timerArmed = FALSE,
                                      ![s].passed = 0,
                                      ![s].pc = "push"]
    /\ UNCHANGED <<jobch, wpc, schedule, work, obs, accepted>>

\* scheduleLoop, jobch <- s: completes when the buffer has room.
PushEnabled(s) ==
    /\ schedules[s].pc = "push"
    /\ CanSend(Len(jobch), JobchCap)

\* (as if startTime were taken after the send on jobch)
Push_RecordsStartTime(s) ==
    /\ PushEnabled(s)
    /\ jobch' = Append(jobch, s)
    /\ schedules' = [schedules EXCEPT ![s].pc = "select", ![s].passed = 0]
    /\ accepted' = Append(accepted, s)
    /\ UNCHANGED <<wpc, schedule, work, obs>>

Push(s) ==
    /\ PushEnabled(s)
    /\ jobch' = Append(jobch, s)
    /\ schedules' = [schedules EXCEPT ![s].pc = "select"]
    /\ accepted' = Append(accepted, s)
    /\ UNCHANGED <<wpc, schedule, work, obs>>

\* scheduleLoop, case <-s.confirmationChannel: compute the compensated
\* wait and reset the timer.
ConfirmEnabled(s) ==
    /\ schedules[s].pc = "select"
    /\ schedules[s].confirmationChannel > 0

\* (as if the select looked at the confirmation without taking it)
Confirmed_KeepsConfirmation(s) ==
    /\ ConfirmEnabled(s)
    /\ schedules' = [schedules EXCEPT
            ![s].timerArmed = TRUE,
            ![s].timerLeft = WaitTime(schedules[s].interval, schedules[s].passed)]
    /\ UNCHANGED <<jobch, wpc, schedule, work, obs, accepted>>

Confirmed(s) ==
    /\ ConfirmEnabled(s)
    /\ LET passedTime == schedules[s].passed
           waitTime == WaitTime(schedules[s].interval, passedTime)
       IN  schedules' = [schedules EXCEPT
                   ![s].confirmationChannel = @ - 1,
                   ![s].timerArmed = TRUE,
                   ![s].timerLeft = waitTime]
    /\ UNCHANGED <<jobch, wpc, schedule, work, obs, accepted>>

\* workerLoop, schedule := <-scheduler.jobch followed by the call of
\* schedule.worker.PerformWork(); the invocation either returns after some
\* duration or never returns.
\* (as if every job were run by a consumer of its own)
ReceiveEnabled_NoSingleConsumer == Len(jobch) > 0

ReceiveEnabled ==
    /\ wpc = "recv"
    /\ Len(jobch) > 0

\* (as if workerLoop ran the first registered Schedule, not the received one)
Receive_FirstRegistered(hangs) ==
    /\ ReceiveEnabled
    /\ schedule' = 1
    /\ jobch' = Tail(jobch)
    /\ wpc' = "work"
    /\ work' = [elapsed |-> 0, hangs |-> hangs]
    /\ obs' = [obs EXCEPT ![1].executing = @ + 1, ![1].ran = TRUE]
    /\ accepted' = Tail(accepted)
    /\ UNCHANGED <<schedules>>

\* (as if the receive left the Schedule in jobch)
Receive_LeavesJob(hangs) ==
    /\ ReceiveEnabled
    /\ schedule' = Head(jobch)
    /\ wpc' = "work"
    /\ work' = [elapsed |-> 0, hangs |-> hangs]
    /\ obs' = [obs EXCEPT ![Head(jobch)].executing = @ + 1,
                          ![Head(jobch)].ran = TRUE]
    /\ UNCHANGED <<schedules, jobch, accepted>>

Receive(hangs) ==
    /\ ReceiveEnabled
    /\ schedule' = Head(jobch)
    /\ jobch' = Tail(jobch)
    /\ wpc' = "work"
    /\ work' = [elapsed |-> 0, hangs |-> hangs]
    /\ obs' = [obs EXCEPT ![Head(jobch)].executing = @ + 1,
                          ![Head(jobch)].ran = TRUE]
    /\ accepted' = Tail(accepted)
    /\ UNCHANGED <<schedules>>

\* (as if workerLoop gave up on a job after some time)
Return_Timeout(d) ==
    /\ wpc = "work"
    /\ work.elapsed = d
    /\ wpc' = "send"
    /\ work' = NoWork
    /\ obs' = [obs EXCEPT ![schedule].executing = @ - 1]
    /\ UNCHANGED <<schedules, jobch, schedule, accepted>>

\* PerformWork returns after duration d.
Return(d) ==
    /\ wpc = "work"
    /\ ~work.hangs
    /\ work.elapsed = d
    /\ wpc' = "send"
    /\ work' = NoWork
    /\ obs' = [obs EXCEPT ![schedule].executing = @ - 1]
    /\ UNCHANGED <<schedules, jobch, schedule, accepted>>

\* workerLoop, schedule.confirmationChannel <- true
SendEnabled ==
    /\ wpc = "send"
    /\ CanSend(schedules[schedule].confirmationChannel, ConfCap)

\* (as if the confirmation went to the first registered Schedule)
SendConfirmation_FirstRegistered ==
    /\ wpc = "send"
    /\ CanSend(schedules[1].confirmationChannel, ConfCap)
    /\ schedules' = [schedules EXCEPT ![1].confirmationChannel = @ + 1]
    /\ wpc' = "recv"
    /\ UNCHANGED <<jobch, schedule, work, obs, accepted>>

\* (as if workerLoop went back to its receive without confirming)
SendConfirmation_Dropped ==
    /\ wpc = "send"
    /\ wpc' = "recv"
    /\ UNCHANGED <<schedules, jobch, schedule, work, obs, accepted>>

SendConfirmation ==
    /\ SendEnabled
    /\ schedules' = [schedules EXCEPT ![schedule].confirmationChannel = @ + 1]
    /\ wpc' = "recv"
    /\ UNCHANGED <<jobch, schedule, work, obs, accepted>>

\* Some goroutine can take a step without time passing.
StepEnabled(maxDuration) ==
    \/ \E s \in Ids : TimerExpired(s) \/ PushEnabled(s) \/ ConfirmEnabled(s)
    \/ ReceiveEnabled
    \/ SendEnabled
    \/ wpc = "work" /\ ~work.hangs /\ work.elapsed >= maxDuration

\* One nanosecond passes while every goroutine is blocked or inside
\* PerformWork.  passed counts up to one more than the interval: every
\* larger value gives the same waitTime.
Tick(maxDuration) ==
    /\ ~StepEnabled(maxDuration)
    /\ schedules' = [s \in Ids |->
            [schedules[s] EXCEPT
                !.passed = Min(@ + 1, Max(schedules[s].interval, 0) + 1),
                !.timerLeft = IF schedules[s].timerArmed /\ @ > 0
                              THEN @ - 1 ELSE @]]
    /\ work' = IF wpc = "work" /\ ~work.hangs
               THEN [work EXCEPT !.elapsed = @ + 1] ELSE work
    /\ UNCHANGED <<jobch, wpc, schedule, obs, accepted>>

\* ------------------------------------------------- several Schedules
Next ==
    \/ \E i \in Intervals : AddSchedule(i) /\ UNCHANGED trace
    \/ \E s \in Ids : TimerFire(s) /\ UNCHANGED trace
    \/ \E s \in Ids : Push(s) /\ UNCHANGED trace
    \/ \E s \in Ids : Confirmed(s) /\ UNCHANGED trace
    \/ \E h \in BOOLEAN : Receive(h) /\ UNCHANGED trace
    \/ \E d \in Durations : Return(d) /\ UNCHANGED trace
    \/ SendConfirmation /\ UNCHANGED trace
    \/ Tick(MaxDuration) /\ UNCHANGED trace

Spec == Init /\ [][Next]_vars

\* ---------------------------------------------------- a single Schedule
\* The Scheduler with one Schedule, under a harness that records for each
\* of its first MaxRuns runs
\*   <<time of the timer expiry, time PerformWork began, its duration,
\*     time the confirmation was consumed, the wait the timer was reset to>>
\* on a clock that starts when the Schedule is registered and stops at
\* Horizon or with the last of these runs.
Recording ==
    /\ trace.clock < Horizon
    /\ ~(Len(trace.runs) = MaxRuns /\ Len(trace.runs[MaxRuns]) = 5)

Begin(run) ==
    IF Recording /\ Len(trace.runs) < MaxRuns
       /\ (trace.runs = << >> \/ Len(trace.runs[Len(trace.runs)]) = 5)
    THEN trace' = [trace EXCEPT !.runs = Append(@, run)]
    ELSE UNCHANGED trace

Record(stage, values) ==
    LET k == Len(trace.runs)
    IN  IF Recording /\ k > 0 /\ Len(trace.runs[k]) = stage
        THEN trace' = [trace EXCEPT !.runs[k] = @ \o values]
        ELSE UNCHANGED trace

NextSingle ==
    \/ \E i \in SingleIntervals :
          Len(schedules) = 0 /\ AddSchedule(i) /\ UNCHANGED trace
    \/ \E s \in Ids : TimerFire(s) /\ Begin(<<trace.clock>>)
    \/ \E s \in Ids : Push(s) /\ UNCHANGED trace
    \/ \E s \in Ids : Confirmed(s)
                      /\ Record(3, <<trace.clock, schedules'[s].timerLeft>>)
    \/ \E h \in BOOLEAN : Receive(h) /\ Record(1, <<trace.clock>>)
    \/ \E d \in SingleDurations : Return(d) /\ Record(2, <<d>>)
    \/ SendConfirmation /\ UNCHANGED trace
    \/ /\ Len(schedules) > 0
       /\ Tick(MaxOf(SingleDurations))
       /\ trace' = [trace EXCEPT !.clock = IF Recording THEN @ + 1 ELSE @]

SpecSingle == Init /\ [][NextSingle]_vars

\* ------------------------------------------- every PerformWork returns
\* The Scheduler when every PerformWork returns, after a positive time of
\* at most MaxDuration, under the scheduling of the Go runtime: a goroutine
\* that can take a step takes it, a timer that has expired delivers on its
\* channel, time goes on while every goroutine is blocked or inside
\* PerformWork, and a goroutine blocked on its send on jobch gets the slot
\* in its turn (the runtime queues blocked senders first in, first out; the
\* strong fairness of Push asks less: that no blocked sender is passed
\* over forever).
PositiveDurations == 1 .. MaxDuration

NextFair ==
    \/ \E i \in Intervals : AddSchedule(i) /\ UNCHANGED trace
    \/ \E s \in Ids : TimerFire(s) /\ UNCHANGED trace
    \/ \E s \in Ids : Push(s) /\ UNCHANGED trace
    \/ \E s \in Ids : Confirmed(s) /\ UNCHANGED trace
    \/ Receive(FALSE) /\ UNCHANGED trace
    \/ \E d \in PositiveDurations : Return(d) /\ UNCHANGED trace
    \/ SendConfirmation /\ UNCHANGED trace
    \/ Tick(MaxDuration) /\ UNCHANGED trace

Fairness ==
    /\ \A s \in 1 .. MaxSchedules :
          /\ WF_vars(s \in Ids /\ TimerFire(s) /\ UNCHANGED trace)
          /\ SF_vars(s \in Ids /\ Push(s) /\ UNCHANGED trace)
          /\ WF_vars(s \in Ids /\ Confirmed(s) /\ UNCHANGED trace)
    /\ WF_vars(Receive(FALSE) /\ UNCHANGED trace)
    /\ WF_vars(\E d \in PositiveDurations : Return(d) /\ UNCHANGED trace)
    /\ WF_vars(SendConfirmation /\ UNCHANGED trace)
    /\ WF_vars(Tick(MaxDuration) /\ UNCHANGED trace)

SpecFair == Init /\ [][NextFair]_vars /\ Fairness

\* ---------------------------------------------------------------- claims

\* The number of dispatches of Schedule s that are outstanding: blocked on
\* the push, buffered in jobch, executing, waiting for the confirmation to
\* be sent, or confirmed and not yet consumed.
Count(seq, s) == Cardinality({k \in DOMAIN seq : seq[k] = s})

Outstanding(s) ==
      (IF schedules[s].pc = "push" THEN 1 ELSE 0)
    + Count(jobch, s)
    + (IF wpc \in {"work", "send"} /\ schedule = s THEN 1 ELSE 0)
    + schedules[s].confirmationChannel

\* C1: at most one PerformWork is in progress at any time, of whatever
\* Schedules: no Schedule has two invocations in progress and no two
\* Schedules have one each.
C1_Serialization ==
    /\ \A s \in Ids : obs[s].executing <= 1
    /\ Cardinality({s \in Ids : obs[s].executing > 0}) <= 1

\* One job is executing while a second is buffered and a third Schedule is
\* blocked on its push.
C1_Witness ==
    \E s, t, u \in Ids :
        /\ obs[s].executing = 1
        /\ jobch = <<t>>
        /\ schedules[u].pc = "push"
        /\ Cardinality({s, t, u}) = 3

\* C2: every Schedule has at most one dispatch outstanding, and exactly
\* when its timer is not armed: the expiry that disarms the timer creates
\* the dispatch, consuming its confirmation re-arms the timer, so expiries
\* and confirmations of a Schedule alternate, beginning with an expiry.
C2_NoDuplicateDispatch ==
    \A s \in Ids :
        /\ Outstanding(s) <= 1
        /\ schedules[s].timerArmed <=> Outstanding(s) = 0

\* A Schedule with interval 0 whose job has been running for MaxDuration
\* while the two other Schedules are dispatched as well.
C2_Witness ==
    \E s \in Ids :
        /\ schedules[s].interval = 0
        /\ wpc = "work" /\ schedule = s /\ work.elapsed = MaxDuration
        /\ Len(jobch) = JobchCap
        /\ \E u \in Ids : schedules[u].pc = "push"
        /\ \A u \in Ids : Outstanding(u) = 1

\* The recording of the single Schedule's k-th run.
Stage(k) == Len(trace.runs[k])
RunFire(k) == trace.runs[k][1]
RunStart(k) == trace.runs[k][2]
RunDur(k) == trace.runs[k][3]
RunAck(k) == trace.runs[k][4]
RunWait(k) == trace.runs[k][5]
Runs == DOMAIN trace.runs
\* Run k and the start of run k+1 are recorded.
Followed(k) == k \in Runs /\ k + 1 \in Runs /\ Stage(k + 1) >= 2
TheInterval == schedules[1].interval

ExampleWaits == <<15, 10, 19>>
ExampleStartsClaimed == <<0, 20, 30, 49>>
ExampleStarts == <<0, 20, 40, 60>>
\* The runs before run k took the example's durations.
ExampleUpTo(k) ==
    /\ Len(schedules) = 1 /\ TheInterval = ExampleInterval
    /\ k \in Runs /\ k <= 4
    /\ \A j \in 1 .. k - 1 : RunDur(j) = ExampleDurations[j]

C6_BackToBack ==
    \A k \in Runs : Stage(k) = 5 /\ RunDur(k) > TheInterval =>
        /\ RunWait(k) = Nanosecond
        /\ k + 1 \in Runs => RunFire(k + 1) = RunAck(k) + Nanosecond
        /\ k = Len(trace.runs) /\ k < MaxRuns /\ trace.clock < Horizon =>
              /\ schedules[1].pc = "select"
              /\ schedules[1].timerArmed
              /\ schedules[1].timerLeft = RunAck(k) + Nanosecond - trace.clock

\* Two runs in a row took longer than the positive interval and the run
\* after them has started.
C6_Witness ==
    \E k \in Runs :
        /\ TheInterval > Nanosecond
        /\ Followed(k) /\ RunDur(k) > TheInterval
        /\ Followed(k + 1) /\ RunDur(k + 1) > TheInterval

\* Schedule s has had its first timer expiry.
Fired(s) == obs[s].ran \/ ~schedules[s].timerArmed

\* C7 as stated: the first PerformWork of a Schedule begins within one
\* Nanosecond of its registration, whatever the state of the system.
C7_Original ==
    \A s \in Ids : ~obs[s].ran =>
        (IF Fired(s) THEN Nanosecond + schedules[s].passed
                     ELSE schedules[s].passed) <= Nanosecond

\* C7 as amended: the first timer expiry of a Schedule comes exactly one
\* Nanosecond after its registration, whatever its interval and the state
\* of the system; its first PerformWork begins at that instant unless
\* workerLoop is inside the PerformWork of another Schedule: time passes
\* before it only then.
C7_FirstRun ==
    /\ [](\A s \in Ids : ~obs[s].ran /\ ~Fired(s) =>
            /\ schedules[s].pc = "select"
            /\ schedules[s].passed + schedules[s].timerLeft = Nanosecond)
    /\ [][Tick(MaxDuration) =>
            \A s \in Ids : ~obs[s].ran /\ Fired(s) =>
                wpc = "work" /\ schedule # s]_vars

\* A Schedule with the long interval whose first dispatch has been waiting
\* behind another Schedule's job, and one that has not waited at all.
C7_Witness ==
    \E s, u \in Ids :
        /\ schedules[s].interval = MaxInterval
        /\ ~obs[s].ran /\ Fired(s) /\ schedules[s].passed > 0
        /\ schedules[u].interval = MaxInterval
        /\ ~obs[u].ran /\ Fired(u) /\ schedules[u].passed = 0

\* A PerformWork that never returns is in progress.
Hung == wpc = "work" /\ work.hangs
\* Schedule s is blocked on its push or buffered in jobch.
Dispatched(s) == schedules[s].pc = "push" \/ Count(jobch, s) > 0

\* C8: once a PerformWork that never returns is in progress, it stays so;
\* no PerformWork begins and no confirmation is sent; a Schedule whose
\* timer has expired stays blocked on its push or buffered in jobch and its
\* timer is not armed again, so every timer expires at most once more.
C8_Starvation ==
    [][Hung =>
        /\ Hung' /\ schedule' = schedule
        /\ Len(jobch') >= Len(jobch)
        /\ \A s \in Ids :
            /\ obs'[s].executing = obs[s].executing
            /\ schedules'[s].confirmationChannel <= schedules[s].confirmationChannel
            /\ Dispatched(s) => Dispatched(s)' /\ ~schedules'[s].timerArmed
            /\ s = schedule => ~schedules'[s].timerArmed
      ]_vars

\* Behind the job that never returns one Schedule is buffered and one is
\* blocked on its push, and time has passed since.
C8_Witness ==
    /\ Hung
    /\ \E s, u \in Ids :
        /\ s # u /\ s # schedule /\ u # schedule
        /\ jobch = <<s>> /\ schedules[s].passed > 0
        /\ schedules[u].pc = "push" /\ schedules[u].passed > 0
    /\ \A s \in Ids : ~schedules[s].timerArmed

\* C9: the job workerLoop executes next is always the oldest accepted push
\* that has not been executed, whatever the order of registration.
C9_ExecutionOrder ==
    [][wpc = "recv" /\ wpc' = "work" =>
        /\ accepted # << >>
        /\ schedule' = Head(accepted)
        /\ accepted' = Tail(accepted)
        /\ obs'[schedule'].executing = 1
      ]_vars

\* The Schedule registered second is executed while the one registered
\* first, whose push was accepted later, has never run.
C9_Witness ==
    /\ Len(schedules) >= 2
    /\ wpc = "work" /\ schedule = 2
    /\ accepted = <<1>> /\ ~obs[1].ran

\* C10 as stated: while workerLoop is inside PerformWork no push completes.
C10_Original ==
    [][wpc = "work" => Len(jobch') <= Len(jobch)]_vars

\* C10 as amended: a push completes when the one-slot buffer of jobch is
\* empty, also while workerLoop is inside PerformWork, and stays blocked
\* over time only while the buffer is full; so during one PerformWork at
\* most one push completes.
C10_Backpressure ==
    [][/\ Len(jobch') > Len(jobch) => Len(jobch) < JobchCap
       /\ Tick(MaxDuration) =>
              \A s \in Ids : schedules[s].pc = "push" => Len(jobch) = JobchCap
      ]_vars

\* During a PerformWork one push has completed and another Schedule has
\* been blocked on its push for some time.
C10_Witness ==
    /\ wpc = "work" /\ work.elapsed > 0
    /\ Len(jobch) = JobchCap
    /\ \E u \in Ids : schedules[u].pc = "push" /\ schedules[u].passed > 0

\* C11: a confirmation is put on a confirmationChannel only by workerLoop
\* at its send, that is after the PerformWork of the Schedule it received
\* has returned, one at a time, and on the channel of that Schedule only;
\* workerLoop leaves the send by putting exactly one confirmation there.
\* So a Schedule holds a confirmation only for a run of its own that has
\* finished.
C11_TargetedAck ==
    [][/\ \A s \in Ids :
            schedules'[s].confirmationChannel > schedules[s].confirmationChannel
            => /\ wpc = "send" /\ wpc' = "recv" /\ schedule = s
               /\ obs[s].ran /\ obs[s].executing = 0
               /\ schedules'[s].confirmationChannel
                      = schedules[s].confirmationChannel + 1
               /\ \A u \in Ids \ {s} :
                      schedules'[u].confirmationChannel
                          = schedules[u].confirmationChannel
       /\ wpc = "send" /\ wpc' # "send"
            => schedules'[schedule].confirmationChannel
                   = schedules[schedule].confirmationChannel + 1
       /\ wpc # "send" /\ wpc' = "send"
            => wpc = "work" /\ schedule' = schedule
      ]_vars

\* The confirmation of the Schedule registered second lies in its channel
\* while the first Schedule, which has run before, is blocked on its push
\* with an empty channel.
C11_Witness ==
    /\ Len(schedules) >= 2
    /\ wpc = "recv" /\ schedule = 2
    /\ schedules[2].confirmationChannel = 1
    /\ obs[1].ran /\ schedules[1].pc = "push"
    /\ schedules[1].confirmationChannel = 0

\* C12: AddSchedule can be taken in every state, whatever workerLoop and
\* the other Schedules are doing (up to MaxSchedules registrations); it
\* appends exactly one Schedule to the end of schedules, with an empty
\* confirmationChannel and its scheduleLoop started (in its select with the
\* timer armed), and changes neither an existing Schedule nor jobch nor
\* the PerformWork in progress.
C12_Registration ==
    /\ [](Len(schedules) < MaxSchedules
            => ENABLED (\E i \in Intervals : AddSchedule(i)))
    /\ [][Len(schedules') # Len(schedules) =>
            LET n == Len(schedules)
            IN  /\ Len(schedules') = n + 1
                /\ \A s \in 1 .. n : schedules'[s] = schedules[s]
                /\ schedules'[n + 1].interval \in Intervals
                /\ schedules'[n + 1].confirmationChannel = 0
                /\ schedules'[n + 1].pc = "select"
                /\ schedules'[n + 1].timerArmed
                /\ jobch' = jobch /\ accepted' = accepted
                /\ wpc' = wpc /\ schedule' = schedule /\ work' = work
      ]_vars

\* The last Schedule has just been registered, while a PerformWork has
\* been in progress for some time and jobch has been full.
C12_Witness ==
    /\ Len(schedules) = MaxSchedules
    /\ LET n == Len(schedules)
       IN  /\ ~obs[n].ran /\ schedules[n].timerArmed
           /\ schedules[n].timerLeft = Nanosecond /\ schedules[n].passed = 0
    /\ wpc = "work" /\ work.elapsed > 0
    /\ Len(jobch) = JobchCap /\ schedules[jobch[1]].passed > 0

\* The time from the timer expiry of run k to the consumption of its
\* confirmation: what time.Since(startTime) returns.
RunElapsed(k) == RunAck(k) - RunFire(k)

C16_AckSendNeverBlocks ==
    /\ \A s \in Ids : schedules[s].confirmationChannel <= ConfCap
    /\ wpc = "send" =>
          /\ schedules[schedule].confirmationChannel = 0
          /\ schedules[schedule].pc = "select"
          /\ SendEnabled

\* workerLoop is at its send while jobch is full and another Schedule is
\* blocked on its push.
C16_Witness ==
    /\ wpc = "send"
    /\ Len(jobch) = JobchCap
    /\ \E u \in Ids : u # schedule /\ schedules[u].pc = "push"

\* The PerformWork of Schedule s is in progress.
Executing(s) == s \in Ids /\ wpc = "work" /\ schedule = s

\* C17: when every PerformWork returns, every registered Schedule is
\* executed again and again, whatever the number of Schedules and their
\* intervals: from every state on, its PerformWork is in progress at some
\* later time, and every PerformWork in progress comes to its end.
C17_NoStarvation ==
    \A s \in 1 .. MaxSchedules :
        /\ s \in Ids ~> Executing(s)
        /\ Executing(s) ~> ~Executing(s)

\* Every Schedule has run, one of them with interval 0 (so that it runs
\* back to back), and the three are contending: one executing, one
\* buffered, one blocked on its push.
C17_Witness ==
    /\ Len(schedules) = MaxSchedules
    /\ \A s \in Ids : obs[s].ran
    /\ \E s, u \in Ids : schedules[s].interval = 0
                         /\ schedules[u].interval = MaxInterval
    /\ wpc = "work" /\ work.elapsed > 0
    /\ Len(jobch) = JobchCap
    /\ \E u \in Ids : schedules[u].pc = "push" /\ schedules[u].passed > 0

\* The timer expiries of Schedule s whose execution has not been
\* completed: the dispatches blocked on the push, buffered in jobch or
\* being executed.
InFlight(s) ==
      (IF schedules[s].pc = "push" THEN 1 ELSE 0)
    + Count(jobch, s)
    + (IF wpc = "work" /\ schedule = s THEN 1 ELSE 0)

\* C18: for every Schedule the timer expiries not yet followed by a
\* completed execution number 0 or 1.  A timer expiry finds the Schedule
\* with none and leaves it at its send on jobch, and nothing else does; the
\* send appends the Schedule to jobch once; jobch changes only by such a
\* send or by workerLoop's receive, which takes the oldest entry and begins
\* the PerformWork of that very Schedule; workerLoop begins a PerformWork
\* only so, and ends it only by going on to confirm it to the same
\* Schedule.  So no dispatch is lost and none is executed twice.
C18_ExactlyOnce ==
    /\ [](\A s \in Ids : InFlight(s) \in {0, 1})
    /\ [][/\ \A s \in Ids :
               /\ schedules[s].timerArmed /\ ~schedules'[s].timerArmed
                    => /\ InFlight(s) = 0
                       /\ schedules[s].pc = "select" /\ schedules'[s].pc = "push"
               /\ schedules[s].pc # "push" /\ schedules'[s].pc = "push"
                    => schedules[s].timerArmed /\ ~schedules'[s].timerArmed
               /\ schedules[s].pc = "push" /\ schedules'[s].pc # "push"
                    => jobch' = Append(jobch, s)
          /\ jobch' # jobch =>
               \/ \E s \in Ids : /\ schedules[s].pc = "push"
                                 /\ schedules'[s].pc = "select"
                                 /\ jobch' = Append(jobch, s)
               \/ /\ jobch # << >> /\ jobch' = Tail(jobch)
                  /\ wpc = "recv" /\ wpc' = "work"
          /\ wpc # "work" /\ wpc' = "work" =>
               /\ wpc = "recv" /\ jobch # << >>
               /\ jobch' = Tail(jobch) /\ schedule' = Head(jobch)
               /\ obs'[schedule'].executing = obs[schedule'].executing + 1
          /\ wpc = "work" /\ wpc' # "work" =>
               wpc' = "send" /\ schedule' = schedule
          /\ \A s \in DOMAIN schedules' \ Ids :
               schedules'[s].pc = "select" /\ schedules'[s].timerArmed
      ]_vars

\* One Schedule is blocked on the push of its second or later timer expiry
\* (an expiry more than executions completed), another one has run and has
\* its timer armed (as many executions completed as expiries).
C18_Witness ==
    \E s, u \in Ids :
        /\ obs[s].ran /\ schedules[s].pc = "push" /\ schedules[s].passed > 0
        /\ obs[u].ran /\ schedules[u].timerArmed /\ InFlight(u) = 0

====
